---- MODULE Spec2Model ----
(***************************************************************************)
(* Model of elliott's Go-version resolution code:                          *)
(*   elliottlib/util.py                  arch tables, container / rpm loops *)
(*   elliottlib/cincinnati.py            latest stable OCP release          *)
(*   elliottlib/cli/get_golang_versions  the CLI loops and the CLI caller   *)
(* One run executes one entry point (op), chosen with its inputs in Init.   *)
(***************************************************************************)
EXTENDS Integers, Sequences, FiniteSets, TLC

VARIABLES
    op,          \* the entry point this run executes
    pc,          \* "run" while the entry point executes; "done" returned; "raised" an exception left it
    exc,         \* the exception that left the entry point ("" when none)
    nvrs,        \* the nvrs argument: a list of (name, version, release) tuples
    meta,        \* brew: the build object of each nvr (its parent_image_builds map)
    logs,        \* brew: the build log of each nvr, or the fetch failing
    i,           \* number of loop iterations finished
    go_fail,     \* local counter go_fail
    brew_fail,   \* local counter brew_fail
    out,         \* the lines printed, in order
    fetched,     \* the build-log fetches issued, in order: [unit, nvr]
    build_log,   \* local variable build_log of get_golang_container_nvrs
    disp,        \* per processed unit: the branch of the loop body that ended it
    ret,         \* the value the entry point returned
    arch,        \* the arch argument
    nodes,       \* cincinnati: the 'version' of each node of the graph, in response order
    request,     \* the release-graph fetches issued, in order
    pullspec     \* the CLI's ocp_pullspec, once built

vars == <<op, pc, exc, nvrs, meta, logs, i, go_fail, brew_fail, out, fetched,
          build_log, disp, ret, arch, nodes, request, pullspec>>

\* ---------------------------------------------------------------- bounds
MaxUnits == 2
MaxNodes == 3

\* ---------------------------------------------------------------- python helpers
\* x in list
InList(x, seq) == \E k \in DOMAIN seq : seq[k] = x

\* list.index(x): the first position holding x
IndexOf(seq, x) == CHOOSE k \in DOMAIN seq : seq[k] = x /\ \A j \in 1..(k - 1) : seq[j] # x

\* a call's outcome: a returned value, or an exception raised
Return(v) == [ok |-> TRUE, val |-> v]
Raise(e) == [ok |-> FALSE, exc |-> e]

\* ---------------------------------------------------------------- util.py: arch tables
brew_arches == <<"x86_64", "s390x", "ppc64le", "aarch64">>
brew_arch_suffixes == <<"", "-s390x", "-ppc64le", "-aarch64">>
\* the go table with its last two rows out of step with brew_arches
go_arches_Misaligned == <<"amd64", "s390x", "arm64", "ppc64le">>
go_arches == <<"amd64", "s390x", "ppc64le", "arm64">>
go_arch_suffixes == <<"", "-s390x", "-ppc64le", "-arm64">>

\* the translation falling back to the default arch for an unknown name
go_arch_for_brew_arch_Default(brew_arch) ==
    IF InList(brew_arch, go_arches) THEN Return(brew_arch)
    ELSE IF InList(brew_arch, brew_arches)
         THEN Return(go_arches[IndexOf(brew_arches, brew_arch)])
         ELSE Return("amd64")

go_arch_for_brew_arch(brew_arch) ==
    IF InList(brew_arch, go_arches) THEN Return(brew_arch)
    ELSE IF InList(brew_arch, brew_arches)
         THEN Return(go_arches[IndexOf(brew_arches, brew_arch)])
         ELSE Raise("Exception")

brew_arch_for_go_arch(go_arch) ==
    IF InList(go_arch, brew_arches) THEN Return(go_arch)
    ELSE IF InList(go_arch, go_arches)
         THEN Return(brew_arches[IndexOf(go_arches, go_arch)])
         ELSE Raise("Exception")

go_suffix_for_arch(a) ==
    LET r == go_arch_for_brew_arch(a)
    IN IF r.ok THEN Return(go_arch_suffixes[IndexOf(go_arches, r.val)]) ELSE r

brew_suffix_for_arch(a) ==
    LET r == brew_arch_for_go_arch(a)
    IN IF r.ok THEN Return(brew_arch_suffixes[IndexOf(brew_arches, r.val)]) ELSE r

\* arch names a caller may pass: the table's names and names outside it
UnknownArches == {"unknown-arch", "i686", ""}
KnownArches == {brew_arches[k] : k \in DOMAIN brew_arches} \cup {go_arches[k] : k \in DOMAIN go_arches}
ArchNames == KnownArches \cup UnknownArches

\* ---------------------------------------------------------------- brew: the evidence sources
\* build names; GolangBuilderNames are those for which 'golang-builder' in name holds
GolangBuilderNames == {"openshift-golang-builder-container"}

\* (name, version, release) tuples the caller may pass; two share the builder image's name
NVRs == {<<"openshift-golang-builder-container", "v1.15.14", "1">>,
         <<"openshift-golang-builder-container", "v1.16.7", "1">>,
         <<"ose-etcd-container", "v4.9.0", "1">>}

\* keys of parent_image_builds; BuilderKeys are those for which 'builder' in p holds
BuilderKeys == {"rh-osbs/openshift-golang-builder:v1.16", "rh-osbs/openshift-golang-builder:v1.15"}
BaseKey == "rh-osbs/openshift-ose-base:v4.9"

ParentA == [key |-> "rh-osbs/openshift-golang-builder:v1.16", nvr |-> "golang-builder-container-v1.16.7-1"]
ParentB == [key |-> "rh-osbs/openshift-golang-builder:v1.15", nvr |-> "golang-builder-container-v1.15.14-2"]
ParentBase == [key |-> BaseKey, nvr |-> "openshift-enterprise-base-container-v4.9.0-3"]

\* a build object: build['extra']['image']['parent_image_builds'] exists or is a KeyError
NoParents == [hasParents |-> FALSE, parents |-> <<>>]
WithParents(ps) == [hasParents |-> TRUE, parents |-> ps]
BuildObjects == {NoParents, WithParents(<<ParentBase>>), WithParents(<<ParentA>>),
                 WithParents(<<ParentA, ParentBase>>), WithParents(<<ParentA, ParentB>>)}

\* a build log: the words of its text, or the fetch raising BrewBuildException
LogFail == [ok |-> FALSE, words |-> <<>>]
LogText(ws) == [ok |-> TRUE, words |-> ws]
TextNoToken == LogText(<<"Installing", "gcc-8.4.1-1.el8", "done">>)
TextToken == LogText(<<"Installing", "golang-bin-1.16.7-1.module+el8", "x86_64", "1.16.7-1.module+el8", "done">>)
LogResponses == {LogFail, TextNoToken, TextToken}
Unbound == [ok |-> FALSE, words |-> <<"unbound">>]

\* ---------------------------------------------------------------- util.py: extraction
\* words in which (go-toolset-1[^\s]*|golang-bin) matches
MarkerWords == {"golang-bin-1.16.7-1.module+el8", "go-toolset-1.14-1.14.12-1.el8"}
\* words in which [0-9]+.[0-9]+.[0-9]+[^\s]* matches
VersionWords == {"golang-bin-1.16.7-1.module+el8", "go-toolset-1.14-1.14.12-1.el8",
                 "1.16.7-1.module+el8", "gcc-8.4.1-1.el8"}

\* re.search: the leftmost start, the greedy .* running to the last version on the line;
\* m is None raises AttributeError at m.group; " ".join(split()) keeps the words
get_golang_version_from_build_log(log) ==
    LET ws == log.words
        starts == {s \in DOMAIN ws : ws[s] \in MarkerWords /\ \E e \in s..Len(ws) : ws[e] \in VersionWords}
    IN IF starts = {} THEN Raise("AttributeError")
       ELSE LET s == CHOOSE x \in starts : \A t \in starts : x <= t
                e == CHOOSE x \in s..Len(ws) : ws[x] \in VersionWords
                                                /\ \A t \in s..Len(ws) : ws[t] \in VersionWords => t <= x
            IN Return(SubSeq(ws, s, e))

\* ---------------------------------------------------------------- util.py: container loop helpers
None == "None"

RECURSIVE ScanParents_ExactKey(_, _, _)
\* the scan with the key test p == 'builder' in place of 'builder' in p
ScanParents_ExactKey(parents, k, golang_version) ==
    IF k > Len(parents) THEN golang_version
    ELSE ScanParents_ExactKey(parents, k + 1,
                              IF parents[k].key = "builder" THEN parents[k].nvr ELSE golang_version)

RECURSIVE ScanParents(_, _, _)
\* for p, pinfo in parents.items(): if 'builder' in p: golang_version = pinfo.get('nvr')
ScanParents(parents, k, golang_version) ==
    IF k > Len(parents) THEN golang_version
    ELSE ScanParents(parents, k + 1,
                     IF parents[k].key \in BuilderKeys THEN parents[k].nvr ELSE golang_version)

\* name in n, n a (name, version, release) tuple
NameIn(name, n) == \E k \in DOMAIN n : n[k] = name

SetMax(S) == CHOOSE x \in S : \A y \in S : y <= x
SetMin(S) == CHOOSE x \in S : \A y \in S : x <= y

\* for n in nvrs: if name in n: build_log = brew.get_nvr_arch_log(*n)
\* the positions fetched, whether a fetch raised, and build_log afterwards
FallbackLoop(name, list, lg, old_log) ==
    LET matching == {k \in DOMAIN list : NameIn(name, list[k])}
        failing == {k \in matching : ~lg[list[k]].ok}
        raised == failing # {}
        upto == IF raised THEN SetMin(failing) ELSE Len(list)
        called == {k \in matching : k <= upto}
        assigned == called \ failing
    IN [raised |-> raised,
        called |-> called,
        build_log |-> IF assigned = {} THEN old_log ELSE lg[list[SetMax(assigned)]]]

RECURSIVE SetToSeq(_)
SetToSeq(S) == IF S = {} THEN <<>> ELSE <<SetMin(S)>> \o SetToSeq(S \ {SetMin(S)})

Fetches(unit, list, called) ==
    LET ks == SetToSeq(called)
    IN [x \in DOMAIN ks |-> [unit |-> unit, nvr |-> list[ks[x]]]]

\* ---------------------------------------------------------------- initial states
Ops == {"get_golang_container_nvrs", "get_golang_rpm_nvrs", "get_rpm_golang_from_nvrs",
        "get_container_golang_versions", "arch_translator", "get_golang_versions_cli"}
PipelineOps == {"get_golang_container_nvrs", "get_golang_rpm_nvrs", "get_rpm_golang_from_nvrs",
                "get_container_golang_versions"}

UnitLists == UNION {[1..n -> NVRs] : n \in 0..MaxUnits}
Listed(list) == {list[k] : k \in DOMAIN list}

DefaultMeta == [n \in NVRs |-> NoParents]
DefaultLogs == [n \in NVRs |-> LogFail]

\* the evidence sources answer for the requested nvrs only
InitPipeline ==
    /\ op \in PipelineOps
    /\ nvrs \in UnitLists
    /\ meta \in [NVRs -> BuildObjects]
    /\ logs \in [NVRs -> LogResponses]
    /\ \A n \in NVRs \ Listed(nvrs) : meta[n] = NoParents /\ logs[n] = LogFail
    /\ op \in {"get_golang_rpm_nvrs", "get_rpm_golang_from_nvrs"} => meta = DefaultMeta
    /\ op = "get_container_golang_versions" => logs = DefaultLogs
    /\ arch = ""
    /\ nodes = <<>>

InitLocals ==
    /\ pc = "run"
    /\ exc = ""
    /\ i = 0
    /\ go_fail = 0
    /\ brew_fail = 0
    /\ out = <<>>
    /\ fetched = <<>>
    /\ build_log = Unbound
    /\ disp = <<>>
    /\ ret = <<>>
    /\ request = <<>>
    /\ pullspec = <<>>

\* ---------------------------------------------------------------- util.py: get_golang_container_nvrs
\* a printed line: who is the name or the nvr printed, text the words after it
VersionLine(unit, who, v) == [kind |-> "version", unit |-> unit, who |-> who, text |-> v, count |-> 0]

\* the order in which a missing parent-image map leads to the builder-image fallback
ContainerBranch_MissingFallsBack(build, name, golang_version) ==
    IF ~build.hasParents
    THEN IF name \in GolangBuilderNames THEN "fallback" ELSE "else"
    ELSE IF golang_version # None THEN "parent"
    ELSE "else"

\* the branch of the loop body a build takes: the KeyError handler, the parent found,
\* the elif 'golang-builder' in name, or the final else
ContainerBranch(build, name, golang_version) ==
    IF ~build.hasParents THEN "KeyError"
    ELSE IF golang_version # None THEN "parent"
    ELSE IF name \in GolangBuilderNames THEN "fallback"
    ELSE "else"

\* one iteration of: for build in all_build_objs
ContainerNvrsStep ==
    /\ op = "get_golang_container_nvrs" /\ pc = "run" /\ i < Len(nvrs)
    /\ LET unit == i + 1
           name == nvrs[unit][1]
           build == meta[nvrs[unit]]
           golang_version == ScanParents(build.parents, 1, None)
           branch == ContainerBranch(build, name, golang_version)
           fb == FallbackLoop(name, nvrs, logs, build_log)
           ext == get_golang_version_from_build_log(fb.build_log)
       IN CASE branch = "KeyError" ->
               \* except KeyError: brew_fail += 1; continue
               /\ brew_fail' = brew_fail + 1
               /\ disp' = Append(disp, "brew_fail")
               /\ i' = unit
               /\ UNCHANGED <<pc, exc, go_fail, out, fetched, build_log>>
          [] branch = "parent" ->
               /\ out' = Append(out, VersionLine(unit, <<name>>, <<golang_version>>))
               /\ disp' = Append(disp, "version")
               /\ i' = unit
               /\ UNCHANGED <<pc, exc, go_fail, brew_fail, fetched, build_log>>
          [] branch = "fallback" ->
               /\ fetched' = fetched \o Fetches(unit, nvrs, fb.called)
               /\ build_log' = fb.build_log
               /\ IF fb.raised
                  THEN \* except BrewBuildException: brew_fail += 1; continue
                       /\ brew_fail' = brew_fail + 1
                       /\ disp' = Append(disp, "brew_fail")
                       /\ i' = unit
                       /\ UNCHANGED <<pc, exc, go_fail, out>>
                  ELSE IF fb.build_log = Unbound
                  THEN \* build_log read before any assignment
                       /\ pc' = "raised"
                       /\ exc' = "UnboundLocalError"
                       /\ UNCHANGED <<i, go_fail, brew_fail, out, disp>>
                  ELSE IF ~ext.ok
                  THEN \* except AttributeError: go_fail += 1; continue
                       /\ go_fail' = go_fail + 1
                       /\ disp' = Append(disp, "go_fail")
                       /\ i' = unit
                       /\ UNCHANGED <<pc, exc, brew_fail, out>>
                  ELSE /\ out' = Append(out, VersionLine(unit, <<name>>, ext.val))
                       /\ disp' = Append(disp, "version")
                       /\ i' = unit
                       /\ UNCHANGED <<pc, exc, go_fail, brew_fail>>
          [] OTHER ->
               /\ go_fail' = go_fail + 1
               /\ disp' = Append(disp, "go_fail")
               /\ i' = unit
               /\ UNCHANGED <<pc, exc, brew_fail, out, fetched, build_log>>
    /\ UNCHANGED <<op, nvrs, meta, logs, ret, arch, nodes, request, pullspec>>

\* return brew_fail, go_fail
ContainerNvrsReturn ==
    /\ op = "get_golang_container_nvrs" /\ pc = "run" /\ i = Len(nvrs)
    /\ pc' = "done"
    /\ ret' = <<brew_fail, go_fail>>
    /\ UNCHANGED <<op, exc, nvrs, meta, logs, i, go_fail, brew_fail, out, fetched,
                   build_log, disp, arch, nodes, request, pullspec>>

\* ---------------------------------------------------------------- util.py: get_golang_rpm_nvrs
\* the rpm loop body with the go_fail increment left out of the AttributeError handler
RpmBody_NoGoFail(unit) ==
    LET nvr == nvrs[unit]
        root_log == logs[nvr]
        ext == get_golang_version_from_build_log(root_log)
    IN /\ fetched' = Append(fetched, [unit |-> unit, nvr |-> nvr])
       /\ i' = unit
       /\ IF ~root_log.ok
          THEN /\ brew_fail' = brew_fail + 1
               /\ disp' = Append(disp, "brew_fail")
               /\ UNCHANGED <<go_fail, out>>
          ELSE IF ~ext.ok
          THEN /\ disp' = Append(disp, "go_fail")
               /\ UNCHANGED <<go_fail, brew_fail, out>>
          ELSE /\ out' = Append(out, VersionLine(unit, nvr, ext.val))
               /\ disp' = Append(disp, "version")
               /\ UNCHANGED <<go_fail, brew_fail>>

\* the body shared by the two rpm loops: fetch the root log, extract, print
RpmBody(unit) ==
    LET nvr == nvrs[unit]
        root_log == logs[nvr]
        ext == get_golang_version_from_build_log(root_log)
    IN /\ fetched' = Append(fetched, [unit |-> unit, nvr |-> nvr])
       /\ i' = unit
       /\ IF ~root_log.ok
          THEN /\ brew_fail' = brew_fail + 1
               /\ disp' = Append(disp, "brew_fail")
               /\ UNCHANGED <<go_fail, out>>
          ELSE IF ~ext.ok
          THEN /\ go_fail' = go_fail + 1
               /\ disp' = Append(disp, "go_fail")
               /\ UNCHANGED <<brew_fail, out>>
          ELSE \* nvr_s = '{}-{}-{}'.format(*nvr); print(f'{nvr_s} {golang_version}')
               /\ out' = Append(out, VersionLine(unit, nvr, ext.val))
               /\ disp' = Append(disp, "version")
               /\ UNCHANGED <<go_fail, brew_fail>>

RpmNvrsStep ==
    /\ op = "get_golang_rpm_nvrs" /\ pc = "run" /\ i < Len(nvrs)
    /\ RpmBody(i + 1)
    /\ UNCHANGED <<op, pc, exc, nvrs, meta, logs, build_log, ret, arch, nodes, request, pullspec>>

RpmNvrsReturn ==
    /\ op = "get_golang_rpm_nvrs" /\ pc = "run" /\ i = Len(nvrs)
    /\ pc' = "done"
    /\ ret' = <<brew_fail, go_fail>>
    /\ UNCHANGED <<op, exc, nvrs, meta, logs, i, go_fail, brew_fail, out, fetched,
                   build_log, disp, arch, nodes, request, pullspec>>

\* ---------------------------------------------------------------- cli: get_rpm_golang_from_nvrs
Summary(what, n) == [kind |-> "summary", unit |-> 0, who |-> <<what>>, text |-> <<>>, count |-> n]

RpmCliStep ==
    /\ op = "get_rpm_golang_from_nvrs" /\ pc = "run" /\ i < Len(nvrs)
    /\ RpmBody(i + 1)
    /\ UNCHANGED <<op, pc, exc, nvrs, meta, logs, build_log, ret, arch, nodes, request, pullspec>>

\* if go_fail: print(...); if brew_fail: print(...)
RpmCliReturn ==
    /\ op = "get_rpm_golang_from_nvrs" /\ pc = "run" /\ i = Len(nvrs)
    /\ pc' = "done"
    /\ out' = out \o (IF go_fail # 0 THEN <<Summary("go_fail", go_fail)>> ELSE <<>>)
                  \o (IF brew_fail # 0 THEN <<Summary("brew_fail", brew_fail)>> ELSE <<>>)
    /\ UNCHANGED <<op, exc, nvrs, meta, logs, i, go_fail, brew_fail, fetched,
                   build_log, disp, ret, arch, nodes, request, pullspec>>

\* ---------------------------------------------------------------- cli: get_container_golang_versions
Message(unit, who) == [kind |-> "message", unit |-> unit, who |-> who, text |-> <<"Could not get parent image info for">>, count |-> 0]

ContainerCliStep ==
    /\ op = "get_container_golang_versions" /\ pc = "run" /\ i < Len(nvrs)
    /\ LET unit == i + 1
           name == nvrs[unit][1]
           build == meta[nvrs[unit]]
           golang_version == ScanParents(build.parents, 1, None)
       IN /\ i' = unit
          /\ IF ~build.hasParents
             THEN /\ out' = Append(out, Message(unit, <<name>>))
                  /\ disp' = Append(disp, "message")
             ELSE IF golang_version # None
             THEN /\ out' = Append(out, VersionLine(unit, <<name>>, <<golang_version>>))
                  /\ disp' = Append(disp, "version")
             ELSE /\ out' = out
                  /\ disp' = Append(disp, "silent")
    /\ UNCHANGED <<op, pc, exc, nvrs, meta, logs, go_fail, brew_fail, fetched, build_log,
                   ret, arch, nodes, request, pullspec>>

ContainerCliReturn ==
    /\ op = "get_container_golang_versions" /\ pc = "run" /\ i = Len(nvrs)
    /\ pc' = "done"
    /\ UNCHANGED <<op, exc, nvrs, meta, logs, i, go_fail, brew_fail, out, fetched,
                   build_log, disp, ret, arch, nodes, request, pullspec>>

\* ---------------------------------------------------------------- semver.compare
\* a version string MAJOR.MINOR.PATCH[-PRERELEASE][+BUILD], by its parsed fields;
\* a prerelease is its dot-separated identifiers, numeric or alphanumeric
Num(n) == [num |-> TRUE, n |-> n, s |-> ""]
Alpha(s) == [num |-> FALSE, n |-> 0, s |-> s]
Ver(major, minor, patch, prerelease, build) ==
    [major |-> major, minor |-> minor, patch |-> patch, prerelease |-> prerelease, build |-> build]

V_4_9_9 == Ver(4, 9, 9, <<>>, "")
V_4_9_12 == Ver(4, 9, 12, <<>>, "")
V_4_9_12_build == Ver(4, 9, 12, <<>>, "amd64")
V_4_9_13_rc_1 == Ver(4, 9, 13, <<Alpha("rc"), Num(1)>>, "")
V_4_9_13 == Ver(4, 9, 13, <<>>, "")
Versions == {V_4_9_9, V_4_9_12, V_4_9_12_build, V_4_9_13_rc_1, V_4_9_13}
NodeLists == UNION {[1..n -> Versions] : n \in 0..MaxNodes}

cmp(a, b) == IF a < b THEN -1 ELSE IF a > b THEN 1 ELSE 0

\* python's order on the alphanumeric identifiers in use
StrRank(s) == CASE s = "alpha" -> 1 [] s = "beta" -> 2 [] s = "rc" -> 3 [] OTHER -> 0

cmp_prerelease_tag(a, b) ==
    IF a.num /\ b.num THEN cmp(a.n, b.n)
    ELSE IF a.num THEN -1
    ELSE IF b.num THEN 1
    ELSE cmp(StrRank(a.s), StrRank(b.s))

RECURSIVE nat_cmp_from(_, _, _)
nat_cmp_from(a, b, k) ==
    IF k > Len(a) \/ k > Len(b) THEN cmp(Len(a), Len(b))
    ELSE LET c == cmp_prerelease_tag(a[k], b[k])
         IN IF c # 0 THEN c ELSE nat_cmp_from(a, b, k + 1)

cmp_core(v1, v2) ==
    IF v1.major # v2.major THEN cmp(v1.major, v2.major)
    ELSE IF v1.minor # v2.minor THEN cmp(v1.minor, v2.minor)
    ELSE cmp(v1.patch, v2.patch)

\* a comparison that ranks a prerelease above the release of the same core
compare_PrereleaseHigher(v1, v2) ==
    LET x == cmp_core(v1, v2)
        rc1 == v1.prerelease
        rc2 == v2.prerelease
        rccmp == IF rc1 = <<>> /\ rc2 = <<>> THEN 0
                 ELSE IF rc1 = <<>> THEN -1
                 ELSE IF rc2 = <<>> THEN 1
                 ELSE nat_cmp_from(rc1, rc2, 1)
    IN IF x # 0 THEN x ELSE rccmp

\* semver.compare(ver1, ver2): the core, then the prerelease; the build is not compared
compare(v1, v2) ==
    LET x == cmp_core(v1, v2)
        rc1 == v1.prerelease
        rc2 == v2.prerelease
        rccmp == IF rc1 = <<>> /\ rc2 = <<>> THEN 0
                 ELSE IF rc1 = <<>> THEN 1
                 ELSE IF rc2 = <<>> THEN -1
                 ELSE nat_cmp_from(rc1, rc2, 1)
    IN IF x # 0 THEN x ELSE rccmp

\* ---------------------------------------------------------------- cincinnati.py
\* sorted() is stable, also with reverse=True: x goes after every element not below it
RECURSIVE InsertDesc(_, _)
InsertDesc(sorted, x) ==
    IF sorted = <<>> THEN <<x>>
    ELSE IF compare(Head(sorted), x) >= 0 THEN <<Head(sorted)>> \o InsertDesc(Tail(sorted), x)
    ELSE <<x>> \o sorted

RECURSIVE SortFrom(_, _, _)
SortFrom(versions, k, acc) ==
    IF k > Len(versions) THEN acc ELSE SortFrom(versions, k + 1, InsertDesc(acc, versions[k]))

sort_semver(versions) == SortFrom(versions, 1, <<>>)

\* the call returning an empty string for an empty graph
get_latest_stable_ocp_Default(version, a, graph) ==
    LET arch1 == IF a = "x86_64" THEN "amd64" ELSE a
        channel == <<"stable-", version>>
    IN [request |-> <<[arch |-> arch1, channel |-> channel]>>,
        outcome |-> IF graph = <<>> THEN Return("") ELSE Return(graph[1])]

\* the fetch the call issues and the call's outcome, for the graph the source answers with
get_latest_stable_ocp(version, a, graph) ==
    LET arch1 == IF a = "x86_64" THEN "amd64" ELSE a
        channel == <<"stable-", version>>
        descending_versions == sort_semver(graph)
    IN [request |-> <<[arch |-> arch1, channel |-> channel]>>,
        outcome |-> IF descending_versions = <<>> THEN Raise("IndexError")
                    ELSE Return(descending_versions[1])]

\* ---------------------------------------------------------------- cli: get_golang_versions_cli, --rhcos-ocp
GroupVersion == "4.9"

InitCli ==
    /\ op = "get_golang_versions_cli"
    /\ arch \in ArchNames
    /\ nodes \in NodeLists
    /\ nvrs = <<>>
    /\ meta = DefaultMeta
    /\ logs = DefaultLogs

\* arch = 'x86_64' if not arch else arch; release = cincinnati.get_latest_stable_ocp(version, arch)
CliGetLatestStableOcp ==
    /\ op = "get_golang_versions_cli" /\ pc = "run"
    /\ LET arch1 == IF arch = "" THEN "x86_64" ELSE arch
           call == get_latest_stable_ocp(GroupVersion, arch1, nodes)
       IN /\ arch' = arch1
          /\ request' = request \o call.request
          /\ IF call.outcome.ok
             THEN /\ ret' = <<call.outcome.val>>
                  /\ pc' = "returned"
                  /\ exc' = exc
             ELSE /\ ret' = ret
                  /\ pc' = "raised"
                  /\ exc' = call.outcome.exc
    /\ UNCHANGED <<op, nvrs, meta, logs, i, go_fail, brew_fail, out, fetched, build_log,
                   disp, nodes, pullspec>>

\* if not release: return; ocp_pullspec = f'quay.io/openshift-release-dev/ocp-release:{release}-{arch}'
CliBuildPullspec ==
    /\ op = "get_golang_versions_cli" /\ pc = "returned"
    /\ pc' = "done"
    /\ pullspec' = IF ret = <<>> THEN pullspec ELSE <<[release |-> ret[1], arch |-> arch]>>
    /\ UNCHANGED <<op, exc, nvrs, meta, logs, i, go_fail, brew_fail, out, fetched, build_log,
                   disp, ret, arch, nodes, request>>

\* ---------------------------------------------------------------- util.py: the arch functions applied
InitArch ==
    /\ op = "arch_translator"
    /\ arch \in ArchNames
    /\ nodes = <<>>
    /\ nvrs = <<>>
    /\ meta = DefaultMeta
    /\ logs = DefaultLogs

ArchTranslate ==
    /\ op = "arch_translator" /\ pc = "run"
    /\ pc' = "translated"
    /\ ret' = <<[go |-> go_arch_for_brew_arch(arch), brew |-> brew_arch_for_go_arch(arch),
                 go_suffix |-> go_suffix_for_arch(arch), brew_suffix |-> brew_suffix_for_arch(arch)]>>
    /\ UNCHANGED <<op, exc, nvrs, meta, logs, i, go_fail, brew_fail, out, fetched, build_log,
                   disp, arch, nodes, request, pullspec>>

\* each translation translated back by the other function
ArchTranslateBack ==
    /\ op = "arch_translator" /\ pc = "translated" /\ ret[1].go.ok /\ ret[1].brew.ok
    /\ pc' = "done"
    /\ ret' = Append(ret, [brew |-> brew_arch_for_go_arch(ret[1].go.val),
                           go |-> go_arch_for_brew_arch(ret[1].brew.val)])
    /\ UNCHANGED <<op, exc, nvrs, meta, logs, i, go_fail, brew_fail, out, fetched, build_log,
                   disp, arch, nodes, request, pullspec>>

\* ---------------------------------------------------------------- specification
Init == (InitPipeline \/ InitCli \/ InitArch) /\ InitLocals

Next ==
    \/ ContainerNvrsStep
    \/ ContainerNvrsReturn
    \/ RpmNvrsStep
    \/ RpmNvrsReturn
    \/ RpmCliStep
    \/ RpmCliReturn
    \/ ContainerCliStep
    \/ ContainerCliReturn
    \/ CliGetLatestStableOcp
    \/ CliBuildPullspec
    \/ ArchTranslate
    \/ ArchTranslateBack

Spec == Init /\ [][Next]_vars

\* ---------------------------------------------------------------- properties
TallyOps == {"get_golang_container_nvrs", "get_golang_rpm_nvrs"}
Successes == Cardinality({k \in DOMAIN out : out[k].kind = "version"})
FetchesDuring(u) == {k \in DOMAIN fetched : fetched[k].unit = u}
BuilderEntries(build) == {k \in DOMAIN build.parents : build.parents[k].key \in BuilderKeys}
BuilderNVRs(build) == {build.parents[k].nvr : k \in BuilderEntries(build)}
SameSet(a, b) == {a[k] : k \in DOMAIN a} = {b[k] : k \in DOMAIN b}

\* C1: a full run of get_golang_rpm_nvrs or get_golang_container_nvrs over N units
\* returns, and then successes + brew_fail + go_fail = N, a success being a unit
\* for which a version line was printed.
C1_TallyCoversEveryUnit ==
    op \in TallyOps =>
        /\ pc # "raised"
        /\ Successes + brew_fail + go_fail = i
        /\ pc = "done" => Successes + ret[1] + ret[2] = Len(nvrs)

C1_Witness ==
    /\ op = "get_golang_container_nvrs" /\ pc = "done" /\ Len(nvrs) = MaxUnits
    /\ Successes > 0 /\ ret[1] + ret[2] > 0 /\ fetched # <<>>

\* C2: when a run is complete, every requested unit has a version line, a per-unit
\* message, or an entry in one of the two tallies, in each of the four loops.
C2_NoUnitSilentlyDropped ==
    (op \in PipelineOps /\ pc = "done") =>
        \A u \in DOMAIN nvrs :
            \/ \E k \in DOMAIN out : out[k].unit = u /\ out[k].kind \in {"version", "message"}
            \/ disp[u] \in {"brew_fail", "go_fail"}

\* C3: translating one of the four brew names to the go convention gives one of the
\* four go names and translating that back gives the name again; likewise from the
\* four go names through the brew convention.
C3_ArchRoundTrip ==
    (op = "arch_translator" /\ pc = "done") =>
        /\ InList(arch, brew_arches) =>
               /\ InList(ret[1].go.val, go_arches)
               /\ ret[1].go.val = go_arches[IndexOf(brew_arches, arch)]
               /\ ret[2].brew = Return(arch)
        /\ InList(arch, go_arches) =>
               /\ InList(ret[1].brew.val, brew_arches)
               /\ ret[1].brew.val = brew_arches[IndexOf(go_arches, arch)]
               /\ ret[2].go = Return(arch)

C3_Witness ==
    /\ op = "arch_translator" /\ pc = "done" /\ arch = "aarch64"
    /\ ret[1].go = Return("arm64") /\ ret[2].brew = Return("aarch64")

\* C4: for an arch name outside the table, each of go_arch_for_brew_arch,
\* brew_arch_for_go_arch, go_suffix_for_arch and brew_suffix_for_arch raises and
\* returns no value.
C4_UnknownArchRaises ==
    (op = "arch_translator" /\ pc # "run" /\ arch \notin KnownArches) =>
        /\ ret[1].go = Raise("Exception")
        /\ ret[1].brew = Raise("Exception")
        /\ ret[1].go_suffix = Raise("Exception")
        /\ ret[1].brew_suffix = Raise("Exception")

C4_Witness ==
    /\ op = "arch_translator" /\ pc = "translated" /\ arch = "unknown-arch"
    /\ ~ret[1].go.ok /\ ~ret[1].brew_suffix.ok

\* C5: get_latest_stable_ocp issues exactly one release-graph fetch, with the arch
\* go_arch_for_brew_arch gives for its argument; for an arch outside the table it
\* raises and issues no fetch.
C5_FetchUsesArchTranslation ==
    (op = "get_golang_versions_cli" /\ pc # "run") =>
        LET t == go_arch_for_brew_arch(arch)
        IN IF t.ok
           THEN Len(request) = 1 /\ request[1].arch = t.val
           ELSE request = <<>> /\ pc = "raised"

\* C6: two non-empty node lists holding the same set of version strings give the
\* same returned version string, whatever their order and multiplicities.
C6_SelectionIgnoresOrderAndDuplicates ==
    (op = "get_golang_versions_cli" /\ pc = "returned") =>
        \A other \in NodeLists :
            (other # <<>> /\ SameSet(other, nodes)) =>
                get_latest_stable_ocp(GroupVersion, arch, other).outcome = Return(ret[1])

\* C7 as stated: for the nodes ["4.9.12", "4.9.13-rc.1"] the call returns "4.9.12".
C7_PrereleaseExampleAsStated ==
    (op = "get_golang_versions_cli" /\ pc = "returned" /\ nodes = <<V_4_9_12, V_4_9_13_rc_1>>) =>
        ret[1] = V_4_9_12

CoreAtLeast(a, b) ==
    \/ a.major > b.major
    \/ a.major = b.major /\ a.minor > b.minor
    \/ a.major = b.major /\ a.minor = b.minor /\ a.patch >= b.patch

\* C7 amended: for the nodes ["4.9.12", "4.9.13-rc.1"] the call returns "4.9.13-rc.1",
\* the higher core; a prerelease-tagged version is never returned when the list holds
\* a release version whose core is higher than or equal to its own.
C7_PrereleaseNeverOutranksReleaseOfItsCore ==
    (op = "get_golang_versions_cli" /\ pc = "returned") =>
        /\ SameSet(nodes, <<V_4_9_12, V_4_9_13_rc_1>>) => ret[1] = V_4_9_13_rc_1
        /\ \A k, j \in DOMAIN nodes :
               (nodes[k].prerelease # <<>> /\ nodes[j].prerelease = <<>>
                /\ CoreAtLeast(nodes[j], nodes[k])) => ret[1] # nodes[k]

C7_Witness ==
    /\ op = "get_golang_versions_cli" /\ pc = "returned"
    /\ nodes = <<V_4_9_13_rc_1, V_4_9_13, V_4_9_12>> /\ ret[1] = V_4_9_13

\* C8: with an empty node list the call raises (the IndexError of descending_versions[0],
\* which no other graph raises), returns nothing, and the CLI never builds a pullspec.
C8_EmptyGraphRaises ==
    op = "get_golang_versions_cli" =>
        /\ (nodes = <<>> /\ pc # "run") =>
               pc = "raised" /\ exc = "IndexError" /\ ret = <<>> /\ pullspec = <<>>
        /\ pc = "raised" => nodes = <<>>

C8_Witness ==
    /\ op = "get_golang_versions_cli" /\ nodes = <<>> /\ pc = "raised" /\ Len(request) = 1

\* C9: a container unit whose parent_image_builds has a key containing 'builder' gets
\* exactly one version line, carrying the NVR of such an entry (the last one in map
\* order), counts as a success, and no build log is fetched while it is processed.
C9_BuilderParentResolvesDirectly ==
    op = "get_golang_container_nvrs" =>
        \A u \in 1..i :
            LET build == meta[nvrs[u]]
                lines == {k \in DOMAIN out : out[k].unit = u}
            IN (build.hasParents /\ BuilderNVRs(build) # {}) =>
                   /\ disp[u] = "version"
                   /\ Cardinality(lines) = 1
                   /\ \A k \in lines :
                          /\ out[k].kind = "version"
                          /\ Len(out[k].text) = 1
                          /\ out[k].text[1] \in BuilderNVRs(build)
                          /\ out[k].text[1] = build.parents[SetMax(BuilderEntries(build))].nvr
                   /\ FetchesDuring(u) = {}

C9_Witness ==
    /\ op = "get_golang_container_nvrs" /\ pc = "done" /\ Len(nvrs) = 1
    /\ nvrs[1][1] \in GolangBuilderNames
    /\ meta[nvrs[1]] = WithParents(<<ParentA>>)
    /\ out = <<VersionLine(1, <<nvrs[1][1]>>, <<"golang-builder-container-v1.16.7-1">>)>>
    /\ fetched = <<>> /\ ret = <<0, 0>>

OwnOutcome(n) ==
    LET build == meta[n]
        golang_version == ScanParents(build.parents, 1, None)
        branch == ContainerBranch(build, n[1], golang_version)
        ext == get_golang_version_from_build_log(logs[n])
        fromLog == IF ~logs[n].ok THEN [disp |-> "brew_fail", text |-> <<>>]
                   ELSE IF ~ext.ok THEN [disp |-> "go_fail", text |-> <<>>]
                   ELSE [disp |-> "version", text |-> ext.val]
    IN IF op = "get_golang_rpm_nvrs" THEN fromLog
       ELSE CASE branch = "KeyError" -> [disp |-> "brew_fail", text |-> <<>>]
              [] branch = "parent" -> [disp |-> "version", text |-> <<golang_version>>]
              [] branch = "fallback" -> fromLog
              [] OTHER -> [disp |-> "go_fail", text |-> <<>>]

\* the outcome recorded for unit u in the batch
BatchOutcome(u) ==
    LET lines == {k \in DOMAIN out : out[k].unit = u /\ out[k].kind = "version"}
    IN [disp |-> disp[u],
        text |-> IF lines = {} THEN <<>> ELSE out[CHOOSE k \in lines : TRUE].text]

\* C11: in get_golang_container_nvrs and get_golang_rpm_nvrs the outcome and tally
\* category recorded for a unit are those its own build object and build log give,
\* whatever the other units of the batch and their fetches are, and a failing unit
\* leaves every later unit processed.
C11_UnitIsolated ==
    op \in TallyOps =>
        /\ pc # "raised"
        /\ pc = "done" => i = Len(nvrs)
        /\ \A u \in 1..i : BatchOutcome(u) = OwnOutcome(nvrs[u])

====
